---- MODULE Spec2Model ----
(***************************************************************************)
(* A model of the B+-tree of ndac-todoroki/bptree_rust.                    *)
(*                                                                         *)
(* Nodes are nested records, as the Rust values are nested owned values:   *)
(*   ExternalNode  [kind |-> "Ext", node_size, keys, values, next]         *)
(*   InternalNode  [kind |-> "Int", node_size, keys, pointers, greater]    *)
(* Option<T> is a sequence of length 0 (None) or 1 (Some); Option<usize>   *)
(* of a position is 0 (None) or the 1-based index (Some).                  *)
(* A Box<..>.clone() is a deep copy, which is what copying a record is.    *)
(***************************************************************************)
EXTENDS Integers, Sequences, FiniteSets, TLC

\* ---------------------------------------------------------------- bounds
MaxKey == 10
MaxNodeSize == 5
BenchN == 18
MaxLookupKey == 6   \* keys of the caller that mixes inserts and lookups
MaxNodeKey == 8     \* keys of the caller that works on a node directly
MaxDupKey == 3      \* keys of the caller that inserts keys again
MaxDupInserts == 7  \* inserts of the caller that inserts keys again

Keys == 1 .. MaxKey
NodeSizes == 3 .. MaxNodeSize

\* Values are opaque payloads: no code path compares, computes with or
\* branches on one, so a free caller pairs each key with a value of its own,
\* as the unit tests do (insert(1, 100), insert(5, 500), ...)
ValueFor(key) == 100 * key

\* ------------------------------------------------- scripted workloads
\* the module documentation's printing example (node size and pairs)
DocNodeSize == 4
DocExample == << <<1, 1>>, <<3, 2>>, <<5, 3>>, <<2, 4>>, <<4, 5>>, <<6, 6>>, <<8, 7>> >>

\* tests/lib.rs displays_all_keys
TestNodeSize == 5
TestN == 10

\* benchmark(): count-up and count-down loops, value = key
CountUp(n) == [i \in 1 .. n |-> <<i, i>>]
CountDown(n) == [i \in 1 .. n |-> <<n + 1 - i, n + 1 - i>>]

VARIABLES
    node_size,   \* BPlusTree.node_size
    root,        \* BPlusTree.root
    ret,         \* outcome of the last BPlusTree::insert: "None", "Ok", "Err", "Panic"
    inserted,    \* the (key, value) pairs passed to insert so far
    ascending,   \* every insert so far had a key above all earlier keys
    splits,      \* number of meiosis calls completed so far
    script,      \* pairs a scripted caller (benchmark, doc example) still has to insert
    looked       \* the lookups made since the last insert: <<>> when there was none,
                 \* else <<key, result, the lookup before it was of the same key>>

vars == <<node_size, root, ret, inserted, ascending, splits, script, looked>>

\* ------------------------------------------------------ Vec helpers
\* Vec::insert(index, x), index 1-based here
VecInsert(s, pos, x) == SubSeq(s, 1, pos - 1) \o <<x>> \o SubSeq(s, pos, Len(s))

\* Iterator::position(|&k| k > key): 0 for None, else the 1-based index
PositionGreater(keys, key) ==
    IF \E i \in 1 .. Len(keys) : keys[i] > key
    THEN CHOOSE i \in 1 .. Len(keys) :
            /\ keys[i] > key
            /\ \A j \in 1 .. i - 1 : ~(keys[j] > key)
    ELSE 0

\* ------------------------------------------------------ ExternalNode
ExternalNode_new(ns) ==
    [kind |-> "Ext", node_size |-> ns, keys |-> <<>>, values |-> <<>>, next |-> <<>>]

\* mutant: the position test is k < key
get_insert_position_lt(node, key) ==
    IF \E i \in 1 .. Len(node.keys) : node.keys[i] < key
    THEN CHOOSE i \in 1 .. Len(node.keys) :
            /\ node.keys[i] < key
            /\ \A j \in 1 .. i - 1 : node.keys[j] >= key
    ELSE 0

get_insert_position(node, key) == PositionGreater(node.keys, key)

ExternalNode_lookup(node, key) ==
    IF \E i \in 1 .. Len(node.keys) : i <= Len(node.values) /\ node.keys[i] = key
    THEN LET i == CHOOSE i \in 1 .. Len(node.keys) :
                     /\ i <= Len(node.values)
                     /\ node.keys[i] = key
                     /\ \A j \in 1 .. i - 1 : node.keys[j] # key
         IN <<node.values[i]>>
    ELSE <<>>

\* mutant: Full is reported one key early
ExternalNode_insert_full_early(node, key, value) ==
    IF Len(node.keys) >= node.node_size
    THEN [node |-> node, res |-> "Err", splits |-> 0]
    ELSE LET position == get_insert_position(node, key)
             after == IF position # 0
                      THEN [node EXCEPT !.keys = VecInsert(@, position, key),
                                        !.values = VecInsert(@, position, value)]
                      ELSE [node EXCEPT !.keys = Append(@, key),
                                        !.values = Append(@, value)]
         IN [node |-> after,
             res |-> IF Len(after.keys) >= after.node_size - 1 THEN "Full" ELSE "Open",
             splits |-> 0]

\* mutant: the value is pushed to the end whatever the key's position
ExternalNode_insert_value_pushed(node, key, value) ==
    IF Len(node.keys) >= node.node_size
    THEN [node |-> node, res |-> "Err", splits |-> 0]
    ELSE LET position == get_insert_position(node, key)
             after == IF position # 0
                      THEN [node EXCEPT !.keys = VecInsert(@, position, key),
                                        !.values = Append(@, value)]
                      ELSE [node EXCEPT !.keys = Append(@, key),
                                        !.values = Append(@, value)]
         IN [node |-> after,
             res |-> IF Len(after.keys) = after.node_size THEN "Full" ELSE "Open",
             splits |-> 0]

ExternalNode_insert(node, key, value) ==
    IF Len(node.keys) >= node.node_size
    THEN [node |-> node, res |-> "Err", splits |-> 0]
    ELSE LET position == get_insert_position(node, key)
             after == IF position # 0
                      THEN [node EXCEPT !.keys = VecInsert(@, position, key),
                                        !.values = VecInsert(@, position, value)]
                      ELSE [node EXCEPT !.keys = Append(@, key),
                                        !.values = Append(@, value)]
         IN [node |-> after,
             res |-> IF Len(after.keys) = after.node_size THEN "Full" ELSE "Open",
             splits |-> 0]

ExternalNode_first_key(node) == IF node.keys = <<>> THEN <<>> ELSE <<node.keys[1]>>

\* mutant: the separator is the last key of the left half
ExternalNode_meiosis_left_key(node) ==
    LET cut_at == (node.node_size + 1) \div 2
    IN IF cut_at > Len(node.keys) \/ cut_at > Len(node.values) \/ cut_at = Len(node.keys)
       THEN [panic |-> TRUE, former |-> node, latter |-> node, key |-> 0]
       ELSE LET latter == [kind |-> "Ext", node_size |-> node.node_size,
                           keys |-> SubSeq(node.keys, cut_at + 1, Len(node.keys)),
                           values |-> SubSeq(node.values, cut_at + 1, Len(node.values)),
                           next |-> node.next]
                former == [kind |-> "Ext", node_size |-> node.node_size,
                           keys |-> SubSeq(node.keys, 1, cut_at),
                           values |-> SubSeq(node.values, 1, cut_at),
                           next |-> <<latter>>]
            IN [panic |-> FALSE, former |-> former, latter |-> latter,
                key |-> node.keys[cut_at]]

\* mutant: the cut is at floor(node_size / 2)
ExternalNode_meiosis_floor(node) ==
    LET cut_at == node.node_size \div 2
    IN IF cut_at > Len(node.keys) \/ cut_at > Len(node.values) \/ cut_at = Len(node.keys)
       THEN [panic |-> TRUE, former |-> node, latter |-> node, key |-> 0]
       ELSE LET latter == [kind |-> "Ext", node_size |-> node.node_size,
                           keys |-> SubSeq(node.keys, cut_at + 1, Len(node.keys)),
                           values |-> SubSeq(node.values, cut_at + 1, Len(node.values)),
                           next |-> node.next]
                former == [kind |-> "Ext", node_size |-> node.node_size,
                           keys |-> SubSeq(node.keys, 1, cut_at),
                           values |-> SubSeq(node.values, 1, cut_at),
                           next |-> <<latter>>]
            IN [panic |-> FALSE, former |-> former, latter |-> latter,
                key |-> node.keys[cut_at + 1]]

\* panic: Vec::split_off beyond the length, or first().unwrap() of an empty right half
\* mutant: the values are cut one place later than the keys
ExternalNode_meiosis_values_late(node) ==
    LET cut_at == (node.node_size + 1) \div 2
    IN IF cut_at > Len(node.keys) \/ cut_at + 1 > Len(node.values) \/ cut_at = Len(node.keys)
       THEN [panic |-> TRUE, former |-> node, latter |-> node, key |-> 0]
       ELSE LET fk == SubSeq(node.keys, 1, cut_at)
                fv == SubSeq(node.values, 1, cut_at + 1)
                lk == SubSeq(node.keys, cut_at + 1, Len(node.keys))
                lv == SubSeq(node.values, cut_at + 2, Len(node.values))
                latter == [kind |-> "Ext", node_size |-> node.node_size,
                           keys |-> lk, values |-> lv, next |-> node.next]
                former == [kind |-> "Ext", node_size |-> node.node_size,
                           keys |-> fk, values |-> fv, next |-> <<latter>>]
            IN [panic |-> FALSE, former |-> former, latter |-> latter, key |-> lk[1]]

ExternalNode_meiosis(node) ==
    LET cut_at == (node.node_size + 1) \div 2
    IN IF cut_at > Len(node.keys) \/ cut_at > Len(node.values) \/ cut_at = Len(node.keys)
       THEN [panic |-> TRUE, former |-> node, latter |-> node, key |-> 0]
       ELSE LET fk == SubSeq(node.keys, 1, cut_at)
                fv == SubSeq(node.values, 1, cut_at)
                lk == SubSeq(node.keys, cut_at + 1, Len(node.keys))
                lv == SubSeq(node.values, cut_at + 1, Len(node.values))
                latter == [kind |-> "Ext", node_size |-> node.node_size,
                           keys |-> lk, values |-> lv, next |-> node.next]
                former == [kind |-> "Ext", node_size |-> node.node_size,
                           keys |-> fk, values |-> fv, next |-> <<latter>>]
            IN [panic |-> FALSE, former |-> former, latter |-> latter, key |-> lk[1]]

\* ------------------------------------------------------ InternalNode
\* mutant: the division test is k >= key
get_child_division_ge(node, key) ==
    IF \E i \in 1 .. Len(node.keys) : node.keys[i] >= key
    THEN CHOOSE i \in 1 .. Len(node.keys) :
            /\ node.keys[i] >= key
            /\ \A j \in 1 .. i - 1 : node.keys[j] < key
    ELSE 0

get_child_division(node, key) == PositionGreater(node.keys, key)

\* mutant: the two nodes change places
new_by_nodes_swapped(ns, node1, node2, seperator_key) ==
    [kind |-> "Int", node_size |-> ns, keys |-> <<seperator_key>>,
     pointers |-> <<node2>>, greater |-> node1]

new_by_nodes(ns, node1, node2, seperator_key) ==
    [kind |-> "Int", node_size |-> ns, keys |-> <<seperator_key>>,
     pointers |-> <<node1>>, greater |-> node2]

\* mutant: the capacity test is strict
insertable_strict(node) == Len(node.keys) < node.node_size - 2

insertable(node) == Len(node.keys) <= node.node_size - 2

InternalNode_first_key(node) == IF node.keys = <<>> THEN <<>> ELSE <<node.keys[1]>>

\* mutant: the separator also stays in the right half, as in a leaf split
InternalNode_meiosis_keeps_separator(node) ==
    IF \/ Len(node.pointers) < 3 \/ Len(node.keys) < 3
       \/ (node.node_size \div 2) - 1 < 0
       \/ (node.node_size \div 2) - 1 >= Len(node.keys)
       \/ (node.node_size \div 2) - 1 >= Len(node.pointers)
    THEN [panic |-> TRUE, former |-> node, latter |-> node, key |-> 0]
    ELSE LET div_at == (node.node_size \div 2) - 1
             fk == SubSeq(node.keys, 1, div_at)
             lkf == node.keys[div_at + 1]
             lks == SubSeq(node.keys, div_at + 1, Len(node.keys))
             fp == SubSeq(node.pointers, 1, div_at)
             lpf == node.pointers[div_at + 1]
             lps == SubSeq(node.pointers, div_at + 2, Len(node.pointers))
             former == [kind |-> "Int", node_size |-> node.node_size,
                        keys |-> fk, pointers |-> fp, greater |-> lpf]
             latter == [kind |-> "Int", node_size |-> node.node_size,
                        keys |-> lks, pointers |-> lps, greater |-> node.greater]
         IN [panic |-> FALSE, former |-> former, latter |-> latter, key |-> lkf]

\* panic: the explicit guard, split_at beyond the length, or
\* split_first().unwrap() of an empty right part
InternalNode_meiosis(node) ==
    IF \/ Len(node.pointers) < 3 \/ Len(node.keys) < 3
       \/ (node.node_size \div 2) - 1 < 0
       \/ (node.node_size \div 2) - 1 >= Len(node.keys)
       \/ (node.node_size \div 2) - 1 >= Len(node.pointers)
    THEN [panic |-> TRUE, former |-> node, latter |-> node, key |-> 0]
    ELSE LET div_at == (node.node_size \div 2) - 1
             fk == SubSeq(node.keys, 1, div_at)
             lkf == node.keys[div_at + 1]
             lks == SubSeq(node.keys, div_at + 2, Len(node.keys))
             fp == SubSeq(node.pointers, 1, div_at)
             lpf == node.pointers[div_at + 1]
             lps == SubSeq(node.pointers, div_at + 2, Len(node.pointers))
             former == [kind |-> "Int", node_size |-> node.node_size,
                        keys |-> fk, pointers |-> fp, greater |-> lpf]
             latter == [kind |-> "Int", node_size |-> node.node_size,
                        keys |-> lks, pointers |-> lps, greater |-> node.greater]
         IN [panic |-> FALSE, former |-> former, latter |-> latter, key |-> lkf]

\* ---------------------------------------------------------- NodeType
NodeType_meiosis(node) ==
    IF node.kind = "Int" THEN InternalNode_meiosis(node) ELSE ExternalNode_meiosis(node)

NodeType_first_key(node) ==
    IF node.kind = "Int" THEN InternalNode_first_key(node) ELSE ExternalNode_first_key(node)

\* height: a leaf is 1; an internal node is one more than a child
ExternalNode_height(node) == 1

RECURSIVE NodeType_height(_)
InternalNode_height(node) == 1 + NodeType_height(node.greater)

NodeType_height(node) ==
    IF node.kind = "Int" THEN InternalNode_height(node) ELSE ExternalNode_height(node)

RECURSIVE NodeType_lookup(_, _)
InternalNode_lookup(node, key) ==
    LET div == get_child_division(node, key)
    IN IF div # 0
       THEN NodeType_lookup(node.pointers[div], key)
       ELSE NodeType_lookup(node.greater, key)

NodeType_lookup(node, key) ==
    IF node.kind = "Int" THEN InternalNode_lookup(node, key) ELSE ExternalNode_lookup(node, key)

\* the child at `position` has split: self.keys.insert, mem::replace, pointers.insert
\* mutant: the two halves are wrapped in a new internal node in the child's slot
absorb_at_wrapped(node, position, former, latter, key) ==
    [node EXCEPT !.pointers[position] = new_by_nodes(node.node_size, former, latter, key)]

\* mutant: the separator goes one slot too far to the right
absorb_at_key_right(node, position, former, latter, key) ==
    [node EXCEPT !.keys = VecInsert(@, position + 1, key),
                 !.pointers = VecInsert([@ EXCEPT ![position] = latter], position, former)]

\* mutant: the right half is put in front of the left half
absorb_at_halves_swapped(node, position, former, latter, key) ==
    [node EXCEPT !.keys = VecInsert(@, position, key),
                 !.pointers = VecInsert([@ EXCEPT ![position] = former], position, latter)]

absorb_at(node, position, former, latter, key) ==
    [node EXCEPT !.keys = VecInsert(@, position, key),
                 !.pointers = VecInsert([@ EXCEPT ![position] = latter], position, former)]

\* mutant: the left half of the greater child is not pushed
absorb_greater_no_push(node, former, latter, key) ==
    [node EXCEPT !.keys = Append(@, key),
                 !.greater = latter]

\* the greater child has split: keys.push, pointers.push, greater.replace
absorb_greater(node, former, latter, key) ==
    [node EXCEPT !.keys = Append(@, key),
                 !.pointers = Append(@, former),
                 !.greater = latter]

\* mutant: Full is reported one key late
full_or_open_late(node) == IF Len(node.keys) = node.node_size THEN "Full" ELSE "Open"

full_or_open(node) == IF Len(node.keys) = node.node_size - 1 THEN "Full" ELSE "Open"

\* what insert does with the child's answer r; the child as the recursive call
\* left it is in its slot, since the call works on the child in place
after_child(node, position, r) ==
    LET with_child == IF position # 0
                      THEN [node EXCEPT !.pointers[position] = r.node]
                      ELSE [node EXCEPT !.greater = r.node]
    IN CASE r.res = "Open" -> [node |-> with_child, res |-> "Open", splits |-> r.splits]
         [] r.res = "Full" ->
              LET m == NodeType_meiosis(r.node)
              IN IF m.panic
                 THEN [node |-> with_child, res |-> "Panic", splits |-> r.splits]
                 ELSE LET absorbed == IF position # 0
                                      THEN absorb_at(with_child, position, m.former, m.latter, m.key)
                                      ELSE absorb_greater(with_child, m.former, m.latter, m.key)
                      IN [node |-> absorbed, res |-> full_or_open(absorbed),
                          splits |-> r.splits + 1]
         [] r.res = "Err" -> [node |-> with_child, res |-> "Err", splits |-> r.splits]
         [] OTHER -> [node |-> with_child, res |-> "Panic", splits |-> r.splits]

RECURSIVE NodeType_insert(_, _, _)
\* mutant: no capacity test before the descent
InternalNode_insert_no_fail_fast(node, key, value) ==
    LET child_position == get_child_division(node, key)
        child == IF child_position # 0 THEN node.pointers[child_position] ELSE node.greater
    IN after_child(node, child_position, NodeType_insert(child, key, value))

InternalNode_insert(node, key, value) ==
    IF ~insertable(node)
    THEN [node |-> node, res |-> "Err", splits |-> 0]
    ELSE LET child_position == get_child_division(node, key)
             child == IF child_position # 0 THEN node.pointers[child_position] ELSE node.greater
         IN after_child(node, child_position, NodeType_insert(child, key, value))

NodeType_insert(node, key, value) ==
    IF node.kind = "Int"
    THEN InternalNode_insert(node, key, value)
    ELSE ExternalNode_insert(node, key, value)

\* ------------------------------------------------------------ Display
\* usize::fmt
Key_fmt(key) == ToString(key)

RECURSIVE fmt_rest_keys(_)
RECURSIVE fmt_rest_keys_nospace(_)
\* mutant: the separator between keys is "," without the space
fmt_rest_keys_nospace(keys) ==
    IF keys = <<>> THEN ""
    ELSE "," \o Key_fmt(Head(keys)) \o fmt_rest_keys_nospace(Tail(keys))

\* for key in keys { write ", "; key.fmt }
fmt_rest_keys(keys) ==
    IF keys = <<>> THEN "" ELSE ", " \o Key_fmt(Head(keys)) \o fmt_rest_keys(Tail(keys))

ExternalNode_fmt(node) ==
    "[" \o (IF node.keys = <<>> THEN ""
            ELSE Key_fmt(Head(node.keys)) \o fmt_rest_keys(Tail(node.keys))) \o "]"

RECURSIVE NodeType_fmt(_)
RECURSIVE fmt_pointers(_)
\* for pointer in pointers { pointer.fmt; write ", " }
fmt_pointers(pointers) ==
    IF pointers = <<>> THEN ""
    ELSE NodeType_fmt(Head(pointers)) \o ", " \o fmt_pointers(Tail(pointers))

InternalNode_fmt(node) ==
    "[" \o fmt_pointers(node.pointers) \o NodeType_fmt(node.greater) \o "]"

NodeType_fmt(node) ==
    IF node.kind = "Int" THEN InternalNode_fmt(node) ELSE ExternalNode_fmt(node)

BPlusTree_fmt == NodeType_fmt(root)

\* ---------------------------------------------------------- BPlusTree
BPlusTree_new(ns) == ExternalNode_new(ns)

BPlusTree_lookup(key) == NodeType_lookup(root, key)

BPlusTree_height == NodeType_height(root)

InsertedKeys == {p[1] : p \in inserted}

\* BPlusTree::insert; a panic unwinds out of the call with the tree as the
\* in-place mutations left it, and the program makes no further call
Insert(key, value) ==
    /\ ret # "Panic"
    /\ LET r == NodeType_insert(root, key, value)
       IN CASE r.res = "Open" -> /\ root' = r.node
                                 /\ ret' = "Ok"
                                 /\ splits' = splits + r.splits
            [] r.res = "Full" ->
                 LET m == NodeType_meiosis(r.node)
                 IN IF m.panic
                    THEN /\ root' = r.node
                         /\ ret' = "Panic"
                         /\ splits' = splits + r.splits
                    ELSE /\ root' = new_by_nodes(node_size, m.former, m.latter, m.key)
                         /\ ret' = "Ok"
                         /\ splits' = splits + r.splits + 1
            [] r.res = "Err" -> /\ root' = r.node
                                /\ ret' = "Err"
                                /\ splits' = splits + r.splits
            [] OTHER -> /\ root' = r.node
                        /\ ret' = "Panic"
                        /\ splits' = splits + r.splits
    /\ inserted' = inserted \cup {<<key, value>>}
    /\ ascending' = (ascending /\ \A k \in InsertedKeys : k < key)
    /\ looked' = <<>>
    /\ UNCHANGED node_size

\* a lookup that files a default value under a missing key
Lookup_or_insert(key) ==
    /\ ret # "Panic"
    /\ looked' = <<key, BPlusTree_lookup(key), looked # <<>> /\ looked[1] = key>>
    /\ root' = IF BPlusTree_lookup(key) = <<>>
                  /\ NodeType_insert(root, key, 0).res = "Open"
               THEN NodeType_insert(root, key, 0).node
               ELSE root
    /\ UNCHANGED <<node_size, ret, inserted, ascending, splits, script>>

\* BPlusTree::lookup takes &self: it reads the tree and returns an Option
Lookup(key) ==
    /\ ret # "Panic"
    /\ looked' = <<key, BPlusTree_lookup(key), looked # <<>> /\ looked[1] = key>>
    /\ UNCHANGED <<node_size, root, ret, inserted, ascending, splits, script>>

\* Node::insert called on a node directly, as the unit tests call it: the
\* caller gets the result and does not split the node itself
NodeInsert(key, value) ==
    /\ ret # "Panic"
    /\ LET r == NodeType_insert(root, key, value)
       IN /\ root' = r.node
          /\ ret' = r.res
          /\ splits' = splits + r.splits
          /\ inserted' = IF r.res \in {"Open", "Full"}
                         THEN inserted \cup {<<key, value>>}
                         ELSE inserted
    /\ UNCHANGED <<node_size, ascending, script, looked>>

\* the owner of a node that reported Full splits it and puts the two halves
\* under a new internal node
NodeSplit ==
    /\ ret = "Full"
    /\ LET m == NodeType_meiosis(root)
       IN IF m.panic
          THEN root' = root /\ ret' = "Panic" /\ splits' = splits
          ELSE /\ root' = new_by_nodes(node_size, m.former, m.latter, m.key)
               /\ ret' = "Split"
               /\ splits' = splits + 1
    /\ UNCHANGED <<node_size, inserted, ascending, script, looked>>

\* ------------------------------------------------------ specifications
\* a caller inserting pairwise distinct keys in any order
Init ==
    /\ node_size \in NodeSizes
    /\ root = BPlusTree_new(node_size)
    /\ ret = "None"
    /\ inserted = {}
    /\ ascending = TRUE
    /\ splits = 0
    /\ script = <<>>
    /\ looked = <<>>

InsertDistinct ==
    \E key \in Keys \ InsertedKeys :
        Insert(key, ValueFor(key)) /\ UNCHANGED script

Next == InsertDistinct

Spec == Init /\ [][Next]_vars

\* a scripted caller: benchmark's count-up and count-down loops, the
\* integration test and the documentation example
Scripts(ns) ==
    {CountUp(n) : n \in 1 .. BenchN} \cup {CountDown(n) : n \in 1 .. BenchN}
    \cup (IF ns = DocNodeSize THEN {DocExample} ELSE {})
    \cup (IF ns = TestNodeSize THEN {CountUp(TestN)} ELSE {})

InitScript ==
    /\ node_size \in NodeSizes \cup {DocNodeSize, TestNodeSize}
    /\ root = BPlusTree_new(node_size)
    /\ ret = "None"
    /\ inserted = {}
    /\ ascending = TRUE
    /\ splits = 0
    /\ script \in Scripts(node_size)
    /\ looked = <<>>

RunScript ==
    /\ script # <<>>
    /\ Insert(Head(script)[1], Head(script)[2])
    /\ script' = Tail(script)

NextScript == RunScript

SpecScript == InitScript /\ [][NextScript]_vars

\* a caller that looks keys up between its inserts, as lookup_loop does
\* after it has filled the tree
InsertSome ==
    \E key \in (1 .. MaxLookupKey) \ InsertedKeys :
        Insert(key, ValueFor(key)) /\ UNCHANGED script

LookupAny == \E key \in 0 .. MaxLookupKey + 1 : Lookup(key)

NextLookup == InsertSome \/ LookupAny

SpecLookup == Init /\ [][NextLookup]_vars

\* a caller whose keys repeat, as the random keys of lookup_loop do; the
\* value tells the inserts of a key apart: the first insert of key gives
\* ValueFor(key), the next one ValueFor(key) + 1, and so on
Times(key) == Cardinality({p \in inserted : p[1] = key})

InsertAgain ==
    /\ Cardinality(inserted) < MaxDupInserts
    /\ \E key \in 1 .. MaxDupKey :
          Insert(key, ValueFor(key) + Times(key)) /\ UNCHANGED script

NextDup == InsertAgain

SpecDup == Init /\ [][NextDup]_vars

\* a caller that works on one node through the Node trait, as the unit tests
\* do: the node is a new leaf, or an internal node over two leaves that were
\* filled one by one and may be full
FilledLeaf(ns, keys, next) ==
    [kind |-> "Ext", node_size |-> ns, keys |-> keys,
     values |-> [i \in 1 .. Len(keys) |-> ValueFor(keys[i])], next |-> next]

TwoLeaves(ns, a, b) ==
    LET ex_node2 == FilledLeaf(ns, [i \in 1 .. b |-> 2 * (a + i)], <<>>)
        ex_node1 == FilledLeaf(ns, [i \in 1 .. a |-> 2 * i], <<ex_node2>>)
    IN new_by_nodes(ns, ex_node1, ex_node2, ex_node2.keys[1])

NodeKeys == 1 .. MaxNodeKey

InitNode ==
    /\ node_size \in NodeSizes
    /\ \E a \in 0 .. node_size, b \in 1 .. node_size :
          IF a = 0
          THEN root = ExternalNode_new(node_size) /\ inserted = {}
          ELSE /\ root = TwoLeaves(node_size, a, b)
               /\ inserted = {<<2 * i, ValueFor(2 * i)>> : i \in 1 .. a + b}
    /\ ret = "None"
    /\ ascending = TRUE
    /\ splits = 0
    /\ script = <<>>
    /\ looked = <<>>

NodeInsertAny ==
    \E key \in NodeKeys \ InsertedKeys : NodeInsert(key, ValueFor(key))

NextNode == NodeInsertAny \/ NodeSplit

SpecNode == InitNode /\ [][NextNode]_vars

\* ================================================================ claims
\* ----- what is stored in a tree, read off its structure
Children(node) == Append(node.pointers, node.greater)

RECURSIVE Leaves(_)
RECURSIVE LeavesOfAll(_)
\* the leaves under a node, left to right
Leaves(node) == IF node.kind = "Ext" THEN <<node>> ELSE LeavesOfAll(Children(node))
LeavesOfAll(nodes) ==
    IF nodes = <<>> THEN <<>> ELSE Leaves(Head(nodes)) \o LeavesOfAll(Tail(nodes))

RECURSIVE InternalNodes(_)
RECURSIVE InternalNodesOfAll(_)
\* the internal nodes of a subtree, parents first
InternalNodes(node) ==
    IF node.kind = "Ext" THEN <<>> ELSE <<node>> \o InternalNodesOfAll(Children(node))
InternalNodesOfAll(nodes) ==
    IF nodes = <<>> THEN <<>>
    ELSE InternalNodes(Head(nodes)) \o InternalNodesOfAll(Tail(nodes))

RECURSIVE LeafDepths(_)
\* the depths at which the leaves under a node lie, a leaf itself counting 1
LeafDepths(node) ==
    IF node.kind = "Ext" THEN {1}
    ELSE {1 + d : d \in UNION {LeafDepths(Children(node)[i]) : i \in 1 .. Len(Children(node))}}

\* the keys stored in the leaves under a node
KeysUnder(node) ==
    UNION {{Leaves(node)[i].keys[j] : j \in 1 .. Len(Leaves(node)[i].keys)} :
              i \in 1 .. Len(Leaves(node))}

\* the value passed to insert with a key (keys are pairwise distinct)
ValueOf(key) == (CHOOSE p \in inserted : p[1] = key)[2]

Alive == ret # "Panic"

\* the keys looked up: every key a caller may insert, and one below and one
\* above them that is never inserted
LookupKeys == 0 .. MaxKey + 1

\* C1: round trip. After any sequence of inserts with pairwise distinct keys,
\* lookup(k) is Some(v) for every inserted pair (k, v) and None for every key
\* that was never inserted.
C1_RoundTrip ==
    Alive => \A key \in LookupKeys \cup InsertedKeys :
                BPlusTree_lookup(key) =
                    IF key \in InsertedKeys THEN <<ValueOf(key)>> ELSE <<>>

\* an internal node has been split (height 3), keys came in no particular
\* order, and both a stored and a missing key are looked up
C1_Witness ==
    /\ ret = "Ok"
    /\ root.kind = "Int" /\ root.greater.kind = "Int"
    /\ ~ascending
    /\ 1 \in InsertedKeys /\ BPlusTree_lookup(1) = <<ValueFor(1)>>
    /\ MaxKey + 1 \notin InsertedKeys /\ BPlusTree_lookup(MaxKey + 1) = <<>>

\* C2 as stated: with node_size >= 3 no insert returns Err and no meiosis
\* call panics.
C2_NeverFails == ret \notin {"Err", "Panic"}

\* C2 amended: the same for node_size >= 4.
C2_NeverFailsFrom4 == node_size >= 4 => ret \notin {"Err", "Panic"}

\* an internal root was full and has been split without a panic
C2_Witness ==
    /\ node_size >= 4
    /\ ret = "Ok"
    /\ root.kind = "Int" /\ root.greater.kind = "Int" /\ root.pointers[1].kind = "Int"

\* C3: balance. Every leaf is at the same depth from the root, so a height
\* counted as 1 for a leaf and 1 + a child's height for an internal node has
\* one value, whichever child is followed.
C3_Balanced == Cardinality(LeafDepths(root)) = 1

\* a tree of height 3 built from keys in no particular order
C3_Witness ==
    /\ LeafDepths(root) = {3}
    /\ ~ascending
    /\ Len(Leaves(root)) >= 4

\* ----- the leaf chain
RECURSIVE Chain(_)
\* the leaves met by following next from a leaf, that leaf first
Chain(leaf) == <<leaf>> \o (IF leaf.next = <<>> THEN <<>> ELSE Chain(leaf.next[1]))

KeysOfEach(leaves) == [i \in 1 .. Len(leaves) |-> leaves[i].keys]

\* C4: leaf chain. Following next from the leftmost leaf visits exactly the
\* leaves of the tree, left to right, so the keys read along the chain are the
\* keys read along the leaves.
C4_LeafChain ==
    KeysOfEach(Chain(Leaves(root)[1])) = KeysOfEach(Leaves(root))

\* C5: routing. In every internal node every key under child i is below
\* routing key i and, for i > 0, at or above routing key i-1; every key under
\* the greater child is at or above the last routing key.
C5_Routing ==
    \A n \in 1 .. Len(InternalNodes(root)) :
        LET node == InternalNodes(root)[n]
            last == Len(node.keys)
        IN /\ \A i \in 1 .. last :
                \A k \in KeysUnder(Children(node)[i]) :
                    /\ k < node.keys[i]
                    /\ i > 1 => k >= node.keys[i - 1]
           /\ \A k \in KeysUnder(Children(node)[last + 1]) :
                last > 0 => k >= node.keys[last]

\* two levels of internal nodes, built from keys in no particular order
C5_Witness ==
    /\ ret = "Ok"
    /\ LeafDepths(root) = {3}
    /\ ~ascending
    /\ KeysUnder(root.pointers[1]) # {}
    /\ \A k \in KeysUnder(root.pointers[1]) : k < root.keys[1]

\* C6: sorted leaves. In every leaf the keys are strictly increasing, values
\* is as long as keys, and values[j] is the value inserted with keys[j].
C6_SortedLeaves ==
    \A i \in 1 .. Len(Leaves(root)) :
        LET leaf == Leaves(root)[i]
        IN /\ Len(leaf.values) = Len(leaf.keys)
           /\ \A j \in 1 .. Len(leaf.keys) - 1 : leaf.keys[j] < leaf.keys[j + 1]
           /\ \A j \in 1 .. Len(leaf.keys) : leaf.values[j] = ValueOf(leaf.keys[j])

\* leaves of a split tree that received their keys out of order, one of them
\* holding three keys or more
C6_Witness ==
    /\ ~ascending
    /\ root.kind = "Int"
    /\ \E i \in 1 .. Len(Leaves(root)) :
          LET leaf == Leaves(root)[i]
          IN /\ Len(leaf.keys) >= 3
             /\ leaf.values = <<ValueFor(leaf.keys[1]), ValueFor(leaf.keys[2]),
                                ValueFor(leaf.keys[3])>>

\* C7: separators. In every internal node, routing key i is the smallest key
\* stored under the child immediately to its right.
C7_Separator ==
    \A n \in 1 .. Len(InternalNodes(root)) :
        LET node == InternalNodes(root)[n]
        IN \A i \in 1 .. Len(node.keys) :
              LET under == KeysUnder(Children(node)[i + 1])
              IN /\ node.keys[i] \in under
                 /\ \A k \in under : node.keys[i] <= k

\* the root's separator came up from an internal split, and keys were
\* inserted below existing separators
C7_Witness ==
    /\ ret = "Ok"
    /\ LeafDepths(root) = {3}
    /\ ~ascending
    /\ root.keys[1] \in KeysUnder(root.greater)
    /\ root.keys[1] \notin {root.greater.keys[i] : i \in 1 .. Len(root.greater.keys)}

\* ----- the first split
\* the j-th smallest inserted key, counting from 1
KthSmallest(j) ==
    CHOOSE k \in InsertedKeys : Cardinality({x \in InsertedKeys : x < k}) = j - 1

FirstFill == Alive /\ ascending /\ Cardinality(inserted) = node_size

\* C8 as stated: node_size ascending keys into a fresh tree give exactly one
\* split, whose separator is the ceil(node_size/2)-th smallest key.
C8_SplitAtCeil ==
    FirstFill =>
        /\ splits = 1
        /\ root.kind = "Int"
        /\ root.keys = <<KthSmallest((node_size + 1) \div 2)>>

\* C8 amended: the separator is the (ceil(node_size/2) + 1)-th smallest key,
\* the first key of the right half.
C8_SplitAfterCeil ==
    FirstFill =>
        /\ splits = 1
        /\ root.kind = "Int"
        /\ root.keys = <<KthSmallest((node_size + 1) \div 2 + 1)>>

\* five ascending keys with gaps filled a leaf of size 5 and split it once
C8_Witness ==
    /\ FirstFill
    /\ node_size = 5
    /\ InsertedKeys = {1, 3, 4, 6, 8}
    /\ splits = 1
    /\ root.keys = <<6>>

\* ----- rendering
RECURSIVE RenderWithKeys(_)
RECURSIVE RenderSeparated(_, _)
\* children in order, each followed by the routing key to its right
RenderSeparated(pointers, keys) ==
    IF pointers = <<>> \/ keys = <<>> THEN ""
    ELSE RenderWithKeys(Head(pointers)) \o Key_fmt(Head(keys))
            \o RenderSeparated(Tail(pointers), Tail(keys))
\* the rendering C9 describes
RenderWithKeys(node) ==
    IF node.kind = "Ext" THEN ExternalNode_fmt(node)
    ELSE "[" \o RenderSeparated(node.pointers, node.keys)
             \o RenderWithKeys(node.greater) \o "]"

Pairs(s) == {s[i] : i \in 1 .. Len(s)}

TestDone ==
    /\ node_size = TestNodeSize
    /\ ret = "Ok"
    /\ ascending
    /\ inserted = Pairs(CountUp(TestN))

\* C9: an internal node renders with each routing key between the two
\* children it separates; node size 5 with keys 1..10 ascending renders as
\* [[1, 2, 3]4[4, 5, 6]7[7, 8, 9, 10]].
C9_RenderingWithKeys ==
    /\ root.kind = "Int" => BPlusTree_fmt = RenderWithKeys(root)
    /\ TestDone => BPlusTree_fmt = "[[1, 2, 3]4[4, 5, 6]7[7, 8, 9, 10]]"

DocDone ==
    /\ node_size = DocNodeSize
    /\ ret = "Ok"
    /\ inserted = Pairs(DocExample)

\* C10: the documentation's example. Node size 4 and the pairs (1,1), (3,2),
\* (5,3), (2,4), (4,5), (6,6), (8,7) in that order give a root over the three
\* leaves [1,2], [3,4], [5,6,8], rendered as [[1, 2], [3, 4], [5, 6, 8]].
\* (Only the documentation's script inserts this set of pairs.)
C10_DocExample ==
    DocDone =>
        /\ root.kind = "Int"
        /\ Len(Children(root)) = 3
        /\ \A i \in 1 .. 3 : Children(root)[i].kind = "Ext"
        /\ KeysOfEach(Leaves(root)) = << <<1, 2>>, <<3, 4>>, <<5, 6, 8>> >>
        /\ BPlusTree_fmt = "[[1, 2], [3, 4], [5, 6, 8]]"

\* the documentation's script has run to its end
C10_Witness == DocDone /\ script = <<>> /\ ~ascending /\ splits = 2

\* ----- first_key
\* the leaves and the internal nodes of the tree
AllNodes == Leaves(root) \o InternalNodes(root)

\* C11: first_key() of a non-empty node, leaf or internal, is the smallest
\* key stored anywhere under that node.
C11_FirstKeyIsSmallest ==
    \A n \in 1 .. Len(AllNodes) :
        LET node == AllNodes[n]
            under == KeysUnder(node)
        IN under # {} =>
              /\ Len(NodeType_first_key(node)) = 1
              /\ NodeType_first_key(node)[1] \in under
              /\ \A k \in under : NodeType_first_key(node)[1] <= k

NewPair == CHOOSE p \in inserted' \ inserted : TRUE

\* what the root's own insert reports in the step
RootInsert == NodeType_insert(root, NewPair[1], NewPair[2])

\* C13: the height is 1 for a fresh tree and never decreases; an insert leaves
\* it unchanged or raises it by exactly 1, and raises it exactly when the
\* root's own insert reports Full: the new root is then an internal node with
\* one routing key, the split's separator, and exactly two children, the two
\* halves of the old root.
C13_HeightGrowth ==
    [][/\ inserted = {} => BPlusTree_height = 1
       /\ (inserted' # inserted /\ ret' # "Panic") =>
             /\ NodeType_height(root') \in {BPlusTree_height, BPlusTree_height + 1}
             /\ NodeType_height(root') = BPlusTree_height + 1
                   <=> RootInsert.res = "Full"
             /\ RootInsert.res = "Full" =>
                   /\ root'.kind = "Int"
                   /\ Len(root'.keys) = 1
                   /\ Len(Children(root')) = 2
                   /\ root'.keys[1] = NodeType_meiosis(RootInsert.node).key
                   /\ root'.pointers[1] = NodeType_meiosis(RootInsert.node).former
                   /\ root'.greater = NodeType_meiosis(RootInsert.node).latter
                   /\ IF RootInsert.node.kind = "Ext"
                      THEN root'.pointers[1].keys \o root'.greater.keys
                              = RootInsert.node.keys
                      ELSE /\ Leaves(root') = Leaves(RootInsert.node)
                           /\ root'.pointers[1].keys \o root'.keys \o root'.greater.keys
                                 = RootInsert.node.keys]_vars

\* the root has just grown for the second time: height 3 under a single key
C13_Witness ==
    /\ ret = "Ok"
    /\ BPlusTree_height = 3
    /\ Len(root.keys) = 1
    /\ Len(root.pointers[1].keys) + Len(root.greater.keys) = node_size - 2

\* ----- occupancy
\* C14: after every completed insert every leaf holds at least 1 and at most
\* node_size - 1 keys and every internal node at least 1 and at most
\* node_size - 2 routing keys.
C14_Occupancy ==
    ret = "Ok" =>
       /\ \A i \in 1 .. Len(Leaves(root)) :
             /\ Len(Leaves(root)[i].keys) >= 1
             /\ Len(Leaves(root)[i].keys) <= node_size - 1
       /\ \A i \in 1 .. Len(InternalNodes(root)) :
             /\ Len(InternalNodes(root)[i].keys) >= 1
             /\ Len(InternalNodes(root)[i].keys) <= node_size - 2

\* the root holds as many keys as an internal node may hold at rest, above a
\* leaf with node_size - 1 keys
C14_Witness ==
    /\ ret = "Ok"
    /\ node_size >= 4
    /\ root.kind = "Int"
    /\ Len(root.keys) = node_size - 2
    /\ \E i \in 1 .. Len(Leaves(root)) : Len(Leaves(root)[i].keys) = node_size - 1

\* ----- child count
\* C15: every internal node has exactly one more child than routing keys:
\* as many pointers as keys, plus the greater child; so for a new root, for
\* both halves of an internal split and after a child's split is absorbed.
C15_ChildCount ==
    \A i \in 1 .. Len(InternalNodes(root)) :
        /\ Len(InternalNodes(root)[i].pointers) = Len(InternalNodes(root)[i].keys)
        /\ Len(Children(InternalNodes(root)[i])) = Len(InternalNodes(root)[i].keys) + 1

\* a new root over the two halves of an internal split, one of which has
\* absorbed a child's split since
C15_Witness ==
    /\ ret = "Ok"
    /\ BPlusTree_height = 3
    /\ Len(root.keys) = 1
    /\ Len(root.pointers[1].keys) + Len(root.greater.keys) = node_size - 1

\* ----- a node driven directly
\* the index a new key goes to in a sorted key sequence: that of the first
\* key greater than it, or one past the end
IndexFor(keys, key) ==
    IF \E i \in 1 .. Len(keys) : keys[i] > key
    THEN CHOOSE i \in 1 .. Len(keys) :
            keys[i] > key /\ \A j \in 1 .. i - 1 : keys[j] <= key
    ELSE Len(keys) + 1

\* s with x put in at index pos and nothing else changed
InsertedAt(s, t, pos, x) ==
    /\ Len(t) = Len(s) + 1
    /\ t[pos] = x
    /\ \A i \in 1 .. pos - 1 : t[i] = s[i]
    /\ \A i \in pos .. Len(s) : t[i + 1] = s[i]

\* C16: insert(key, value) on a leaf that holds fewer than node_size keys adds
\* exactly one element to keys and one to values, at the same index: that of
\* the first existing key greater than the new key, or the end; it returns
\* Full iff the leaf then holds exactly node_size keys, and Open otherwise.
C16_LeafInsert ==
    [][\A key \in NodeKeys :
          (/\ root.kind = "Ext"
           /\ Len(root.keys) < node_size
           /\ NodeInsert(key, ValueFor(key)))
          => /\ root'.kind = "Ext"
             /\ InsertedAt(root.keys, root'.keys, IndexFor(root.keys, key), key)
             /\ InsertedAt(root.values, root'.values, IndexFor(root.keys, key),
                           ValueFor(key))
             /\ root'.node_size = root.node_size
             /\ root'.next = root.next
             /\ ret' \in {"Full", "Open"}
             /\ ret' = "Full" <=> Len(root'.keys) = node_size]_vars

\* a leaf that an insert in front of its keys has filled
C16_Witness ==
    /\ root.kind = "Ext"
    /\ ret = "Full"
    /\ Len(root.keys) = node_size
    /\ root.keys[1] = 1
    /\ root.keys[2] > 2
    /\ root.values[1] = ValueFor(1)

\* a leaf with node_size keys, or an internal node with node_size - 1 keys
AtCapacity(node) ==
    IF node.kind = "Ext"
    THEN Len(node.keys) = node.node_size
    ELSE Len(node.keys) = node.node_size - 1

\* the child of an internal node that an insert of key goes to
ChildFor(node, key) == Children(node)[IndexFor(node.keys, key)]

\* C17: insert on a leaf that already holds node_size keys, or on an internal
\* node that already holds node_size - 1 routing keys, returns the capacity
\* error and leaves the node and everything under it as it was; an error
\* returned by a child is passed up by the parent, which does not change.
C17_CapacityError ==
    [][\A key \in NodeKeys :
          NodeInsert(key, ValueFor(key)) =>
             /\ AtCapacity(root) => (ret' = "Err" /\ root' = root)
             /\ (/\ root.kind = "Int"
                 /\ ~AtCapacity(root)
                 /\ AtCapacity(ChildFor(root, key)))
                => (ret' = "Err" /\ root' = root)
             /\ ret' = "Err" => (root' = root /\ inserted' = inserted)]_vars

\* a parent below its capacity has passed up the error of a full leaf
C17_Witness ==
    /\ ret = "Err"
    /\ root.kind = "Int"
    /\ ~AtCapacity(root)
    /\ \E i \in 1 .. Len(Children(root)) : AtCapacity(Children(root)[i])

\* a full leaf has refused an insert
C17_LeafRefused == ret = "Err" /\ root.kind = "Ext" /\ AtCapacity(root)

\* a full internal node has refused an insert
C17_InternalRefused ==
    /\ ret = "Err"
    /\ root.kind = "Int"
    /\ AtCapacity(root)
    /\ splits >= 1

\* ceil(n / 2)
CeilHalf(n) == (n \div 2) + (n % 2)

\* the values of a leaf are those of its keys, index by index
Aligned(leaf) ==
    /\ Len(leaf.values) = Len(leaf.keys)
    /\ \A i \in 1 .. Len(leaf.keys) : leaf.values[i] = ValueOf(leaf.keys[i])

\* C18: meiosis on a leaf holding node_size keys returns a left leaf with the
\* first ceil(node_size / 2) keys and a right leaf with the remaining keys,
\* each with index-aligned values and the same node_size; the left keys
\* followed by the right keys are the original keys; the separator is the
\* right leaf's first key, which stays in the right leaf.
C18_LeafSplit ==
    [][(root.kind = "Ext" /\ Len(root.keys) = node_size /\ NodeSplit) =>
          /\ ret' = "Split"
          /\ root'.pointers[1].kind = "Ext" /\ root'.greater.kind = "Ext"
          /\ root'.pointers[1].keys = SubSeq(root.keys, 1, CeilHalf(node_size))
          /\ root'.greater.keys
                = SubSeq(root.keys, CeilHalf(node_size) + 1, node_size)
          /\ root'.pointers[1].values = SubSeq(root.values, 1, CeilHalf(node_size))
          /\ root'.greater.values
                = SubSeq(root.values, CeilHalf(node_size) + 1, node_size)
          /\ root'.pointers[1].node_size = node_size
          /\ root'.greater.node_size = node_size
          /\ root'.pointers[1].keys \o root'.greater.keys = root.keys
          /\ root'.keys = <<root'.greater.keys[1]>>
          /\ Len(root'.greater.keys) >= 1]_vars

\* a leaf filled out of order has just been split, its values still with
\* their keys
C18_Witness ==
    /\ ret = "Split"
    /\ root.kind = "Int"
    /\ root.greater.kind = "Ext"
    /\ splits = 1
    /\ Cardinality(inserted) = node_size
    /\ Aligned(root.pointers[1]) /\ Aligned(root.greater)
    /\ root.keys[1] = root.greater.keys[1]

\* ----- internal split
\* (node_size >> 1) - 1, the number of keys an internal split leaves on the left
DivAt == (node_size \div 2) - 1

\* C19: meiosis on a full internal node (node_size - 1 routing keys,
\* node_size >= 4) keeps the first (node_size >> 1) - 1 keys and their
\* children in the left half, returns the next key as separator and stores it
\* in neither half, and puts the remaining keys in the right half; the left
\* half's greater child is the child right after the split point and the
\* right half keeps the original greater child, so every child of the
\* original node is in exactly one half, in the original order.
C19_InternalSplit ==
    [][(/\ inserted' # inserted
        /\ node_size >= 4
        /\ RootInsert.res = "Full"
        /\ RootInsert.node.kind = "Int")
       => LET orig == RootInsert.node
              left == root'.pointers[1]
              right == root'.greater
              separator == root'.keys[1]
          IN /\ ret' = "Ok"
             /\ Len(orig.keys) = node_size - 1
             /\ left.kind = "Int" /\ right.kind = "Int"
             /\ left.keys = SubSeq(orig.keys, 1, DivAt)
             /\ left.pointers = SubSeq(orig.pointers, 1, DivAt)
             /\ separator = orig.keys[DivAt + 1]
             /\ \A i \in 1 .. Len(left.keys) : left.keys[i] # separator
             /\ \A i \in 1 .. Len(right.keys) : right.keys[i] # separator
             /\ right.keys = SubSeq(orig.keys, DivAt + 2, Len(orig.keys))
             /\ left.greater = orig.pointers[DivAt + 1]
             /\ right.greater = orig.greater
             /\ Children(left) \o Children(right) = Children(orig)
             /\ left.keys \o <<separator>> \o right.keys = orig.keys]_vars

\* an internal root of node size 5 has just been split: one key on the
\* left, two on the right, the separator above them
C19_Witness ==
    /\ ret = "Ok"
    /\ node_size = 5
    /\ BPlusTree_height = 3
    /\ Len(root.keys) = 1
    /\ Len(root.pointers[1].keys) = 1
    /\ Len(root.greater.keys) = 2
    /\ Len(Children(root.pointers[1])) + Len(Children(root.greater)) = 5

\* what the child an insert of key goes to answers, and its split
ChildInsert(node, key, value) == NodeType_insert(ChildFor(node, key), key, value)
ChildSplit(node, key, value) == NodeType_meiosis(ChildInsert(node, key, value).node)

\* C20: when the child selected for an insert reports Full, the internal node
\* replaces that child by the split's left half, places the right half right
\* after it and inserts the separator into keys at the child's index (for the
\* greater child: left half appended to the pointers, separator appended to
\* keys, greater replaced by the right half); all other keys and children keep
\* their order; the node reports Full iff it then has exactly node_size - 1
\* keys, and Open otherwise.
C20_AbsorbSplit ==
    [][\A key \in NodeKeys :
          (/\ root.kind = "Int"
           /\ ~AtCapacity(root)
           /\ ChildInsert(root, key, ValueFor(key)).res = "Full"
           /\ NodeInsert(key, ValueFor(key)))
          => LET pos == IndexFor(root.keys, key)
                 m == ChildSplit(root, key, ValueFor(key))
             IN /\ root'.kind = "Int"
                /\ InsertedAt(root.keys, root'.keys, pos, m.key)
                /\ Len(Children(root')) = Len(Children(root)) + 1
                /\ Children(root')[pos] = m.former
                /\ Children(root')[pos + 1] = m.latter
                /\ \A i \in 1 .. pos - 1 : Children(root')[i] = Children(root)[i]
                /\ \A i \in pos + 1 .. Len(Children(root)) :
                      Children(root')[i + 1] = Children(root)[i]
                /\ Len(root'.pointers) = Len(root'.keys)
                /\ pos = Len(root.keys) + 1 =>
                      /\ root'.pointers = Append(root.pointers, m.former)
                      /\ root'.keys = Append(root.keys, m.key)
                      /\ root'.greater = m.latter
                /\ ret' \in {"Full", "Open"}
                /\ ret' = "Full" <=> Len(root'.keys) = node_size - 1]_vars

\* a node has absorbed the split of a child that is not its last pointer nor
\* its greater child, and reported Full
C20_Witness ==
    /\ ret = "Full"
    /\ root.kind = "Int"
    /\ Len(root.keys) = node_size - 1
    /\ node_size >= 4
    /\ \E i \in 1 .. Len(root.pointers) - 1 :
          /\ root.pointers[i].kind = "Ext"
          /\ root.pointers[i].next = <<root.pointers[i + 1]>>
          /\ root.keys[i] = root.pointers[i + 1].keys[1]

\* the same for the root of a tree that absorbs a child's split and stays
\* below its capacity, so that BPlusTree::insert leaves it as the root; here
\* the child may be an internal node
C20_AbsorbInTree ==
    [][(/\ inserted' # inserted
        /\ root.kind = "Int"
        /\ ChildInsert(root, NewPair[1], NewPair[2]).res = "Full"
        /\ ret' = "Ok"
        /\ RootInsert.res = "Open")
       => LET pos == IndexFor(root.keys, NewPair[1])
              m == ChildSplit(root, NewPair[1], NewPair[2])
          IN /\ InsertedAt(root.keys, root'.keys, pos, m.key)
             /\ Len(Children(root')) = Len(Children(root)) + 1
             /\ Children(root')[pos] = m.former
             /\ Children(root')[pos + 1] = m.latter
             /\ \A i \in 1 .. pos - 1 : Children(root')[i] = Children(root)[i]
             /\ \A i \in pos + 1 .. Len(Children(root)) :
                   Children(root')[i + 1] = Children(root)[i]
             /\ Len(root'.keys) < node_size - 1]_vars

\* the root of a tree has absorbed the split of an internal child
C20_InternalChild ==
    /\ ret = "Ok"
    /\ root.kind = "Int"
    /\ Len(root.keys) = 2
    /\ root.greater.kind = "Int"
    /\ root.pointers[1].kind = "Int"

\* ----- frame of an insert without a split
\* the nodes an insert of key goes through, from the node down to the leaf
RECURSIVE PathFor(_, _)
PathFor(node, key) ==
    IF node.kind = "Ext" THEN <<node>> ELSE <<node>> \o PathFor(ChildFor(node, key), key)

\* the leaf that receives key
LeafFor(node, key) == PathFor(node, key)[Len(PathFor(node, key))]

\* the routing keys and the number of children of every internal node
Routing(node) ==
    [i \in 1 .. Len(InternalNodes(node)) |->
        <<InternalNodes(node)[i].keys, Len(Children(InternalNodes(node)[i]))>>]

\* C21: when the leaf that receives the key reports Open, the insert reports
\* Open at every level up to the root, and the only change in the whole tree
\* is the one key and value added in that leaf: every internal node's routing
\* keys and child list, every other leaf and the height are unchanged.
C21_OpenFrame ==
    [][(/\ inserted' # inserted
        /\ Len(LeafFor(root, NewPair[1]).keys) < node_size - 1)
       => LET key == NewPair[1]
              value == NewPair[2]
              leaf == LeafFor(root, key)
          IN /\ ret' = "Ok"
             /\ \A n \in 1 .. Len(PathFor(root, key)) :
                   NodeType_insert(PathFor(root, key)[n], key, value).res = "Open"
             /\ splits' = splits
             /\ Routing(root') = Routing(root)
             /\ NodeType_height(root') = BPlusTree_height
             /\ Len(Leaves(root')) = Len(Leaves(root))
             /\ \A i \in 1 .. Len(Leaves(root)) :
                   IF Leaves(root)[i] = leaf
                   THEN /\ InsertedAt(leaf.keys, Leaves(root')[i].keys,
                                      IndexFor(leaf.keys, key), key)
                        /\ InsertedAt(leaf.values, Leaves(root')[i].values,
                                      IndexFor(leaf.keys, key), value)
                        /\ Leaves(root')[i].next = leaf.next
                        /\ Leaves(root')[i].node_size = leaf.node_size
                   ELSE Leaves(root')[i] = Leaves(root)[i]]_vars

\* a leaf two levels below the root has taken a key without a split
C21_Witness ==
    /\ ret = "Ok"
    /\ node_size >= 4
    /\ BPlusTree_height = 3
    /\ \E i \in 1 .. Len(Leaves(root)) : Len(Leaves(root)[i].keys) = node_size - 1

\* ----- duplicate keys
\* the number of entries with key in the leaves
RECURSIVE EntriesIn(_, _)
EntriesIn(leaves, key) ==
    IF leaves = <<>> THEN 0
    ELSE Cardinality({i \in 1 .. Len(Head(leaves).keys) : Head(leaves).keys[i] = key})
            + EntriesIn(Tail(leaves), key)

\* C22: inserting a key that is already present adds a second entry and never
\* changes what lookup returns for that key: after any further inserts, of the
\* same key too, and the splits they cause, lookup of the key returns the
\* value given at the key's first insertion.
C22_FirstValueKept ==
    Alive => \A key \in InsertedKeys :
                /\ EntriesIn(Leaves(root), key) = Times(key)
                /\ BPlusTree_lookup(key) = <<ValueFor(key)>>

====
